---- MODULE Spec2Model ----
(***************************************************************************)
(* Model of the RFS Activ dashboard auto-login script: updatePreferences  *)
(* and the driver loginToRFSActiv (login retry loop, dashboard navigation  *)
(* retry loop, zoom, setInterval refresh) of src/login.js and of its       *)
(* TypeScript sibling src/unnamed/part_001.                                *)
(*                                                                         *)
(* One action per await of the driver: an action is the completion of the  *)
(* awaited page operation together with the synchronous code that runs     *)
(* until the next await.  The browser and the site are the environment:    *)
(* every page operation either resolves or rejects, and the URL a          *)
(* navigation lands on is any of Urls.                                     *)
(***************************************************************************)
EXTENDS Integers, Sequences, FiniteSets, TLC

VARIABLES
    variant,             \* which source file runs: "js" (login.js) or "ts" (part_001)
    pc,                  \* the await the driver is suspended at
    url,                 \* page.url()
    ops,                 \* page operations completed in the current attempt: <<name, ok>>
    lastLog,             \* the last line written by _log / console.error
    loginAttempts,       \* let loginAttempts
    navigationAttempts,  \* let navigationAttempts
    loginGotos,          \* history: completed page.goto(pages.login.url) calls
    navGotos,            \* history: completed page.goto(pages.dashboard.url) calls
    loginDelays,         \* history: retry delays elapsed in the login loop
    navDelays,           \* history: retry delays elapsed in the navigation loop
    errorLogged,         \* the error the outer catch wrote with console.error
    driverResult,        \* the promise loginToRFSActiv() returned to the bootstrap
    zoomed,              \* page.evaluate(zoom) has completed
    timers,              \* number of setInterval timers installed
    inflight,            \* page.reload() promises not yet settled
    lastReload,          \* how the last settled reload ended
    alive,               \* the node process is running
    dirExists,           \* the user data directory exists
    prefsFile,           \* content of <userDataPath>/Default/Preferences
    prefsBefore,         \* history: that content when the process started
    prefsWrites,         \* history: completed fs.writeFileSync calls
    prefsErrors,         \* what updatePreferences wrote with console.error
    site                 \* history: what the site did with the submitted credentials

ctl      == <<pc, lastLog, errorLogged, driverResult>>
counters == <<loginAttempts, navigationAttempts, loginGotos, navGotos, loginDelays, navDelays>>
refresh  == <<zoomed, timers, inflight, lastReload, alive>>
prefs    == <<dirExists, prefsFile, prefsBefore, prefsWrites, prefsErrors>>
vars     == <<variant, url, ops, ctl, counters, refresh, prefs, site>>

----------------------------------------------------------------------------
(* Bounds of the model *)

MaxInFlight == 2     \* reloads the environment lets overlap before one settles

----------------------------------------------------------------------------
(* Program constants *)

maxLoginAttempts == 5
maxNavigationAttempts == 5

Host == "https://activ.rfs.nsw.gov.au"
LoginUrl     == <<Host, "webapp", "loginu">>
WebappUrl    == <<Host, "webapp">>
DashboardUrl == <<Host, "webapp", "dashboard">>

\* URLs the browser can be on after a navigation: the three of the pages
\* table, a page below the dashboard, a page of the site outside the web
\* application, and the blank tab the browser opens with.
BlankUrl == <<"about:blank">>
Urls == { LoginUrl, WebappUrl, DashboardUrl,
          <<Host, "webapp", "dashboard", "map">>,
          <<Host, "maintenance">>,
          BlankUrl }

\* String.prototype.includes, on URLs split at "/".
Includes(s, t) ==
    \E i \in 1..(Len(s) - Len(t) + 1) : SubSeq(s, i, i + Len(t) - 1) = t

\* isloggedInPage(page) of part_001; the same test is written inline in login.js.
isloggedInPage(u) == Includes(u, DashboardUrl) \/ Includes(u, WebappUrl)

\* Mutant: the navigation loop accepts any page of the web application.
isDashboardPage_AnyWebapp(u) == Includes(u, WebappUrl)

\* The test of the navigation loop: page.url().includes(pages.dashboard.url).
isDashboardPage(u) == Includes(u, DashboardUrl)

\* The else branch of "if (await page.$(pages.login.username))": login.js
\* only logs and retries, part_001 first asks isloggedInPage.
FormAbsentSucceeds(v, u) == v = "ts" /\ isloggedInPage(u)

----------------------------------------------------------------------------
(* Control transfers shared by the actions.  Each sets all of ctl. *)

Goto(p, msg) ==
    /\ pc' = p
    /\ lastLog' = msg
    /\ UNCHANGED <<errorLogged, driverResult>>

\* _log calls that only login.js makes.
JsLog(msg) == IF variant = "js" THEN msg ELSE lastLog

\* Mutant: the outer catch is empty, the error ends the setup unlogged.
Throw_Silent(e) ==
    /\ pc' = "returned"
    /\ driverResult' = "resolved"
    /\ UNCHANGED <<lastLog, errorLogged>>

\* Mutant: no outer try/catch, the error rejects the driver's promise.
Throw_Rethrows(e) ==
    /\ pc' = "returned"
    /\ lastLog' = lastLog
    /\ errorLogged' = "none"
    /\ driverResult' = "rejected"

\* An error that reaches the outer try/catch of loginToRFSActiv: it is
\* written with console.error and the async function returns normally.
Throw(e) ==
    /\ pc' = "returned"
    /\ lastLog' = "ErrorDuringLogin"
    /\ errorLogged' = e
    /\ driverResult' = "resolved"

\* Mutant: the awaits of the attempt are outside the inner try, so an
\* error of one attempt reaches the outer catch.
LoginAttemptFailed_Escapes ==
    /\ pc' = "returned"
    /\ lastLog' = "ErrorDuringLogin"
    /\ errorLogged' = "attempt"
    /\ driverResult' = "resolved"

\* catch (error) of the login loop: one log line, then on to the delay.
LoginAttemptFailed == Goto("login_delay", "LoginAttemptFailed")

\* Mutant: the catch ends in "continue", skipping delay and increment.
NavAttemptFailed_Continue == Goto("nav_goto", "NavigationAttemptFailed")

\* catch (error) of the navigation loop.
NavAttemptFailed == Goto("nav_delay", "NavigationAttemptFailed")

\* Mutant: the navigation loop test written with <=.
NavLoopTest_OffByOne(n) ==
    IF n <= maxNavigationAttempts
    THEN Goto("nav_goto", "NavigatingToDashboard")
    ELSE Throw("MaxNav")

\* while (navigationAttempts < maxNavigationAttempts), and the check that
\* follows the loop, for the counter value n.
NavLoopTest(n) ==
    IF n < maxNavigationAttempts
    THEN Goto("nav_goto", "NavigatingToDashboard")
    ELSE IF n = maxNavigationAttempts
         THEN Throw("MaxNav")
         ELSE Goto("zoom", lastLog)

\* Mutant: the exhaustion check after the login loop is missing.
AfterLoginLoop_NoCheck(n) == navigationAttempts' = 0 /\ NavLoopTest(0)

\* Mutant: one counter shared by the two loops, the navigation loop goes on
\* from the value the login loop left.
AfterLoginLoop_SharedCounter(n) ==
    IF n = maxLoginAttempts
    THEN Throw("MaxLogin") /\ UNCHANGED navigationAttempts
    ELSE navigationAttempts' = n /\ NavLoopTest(n)

\* The code after the login loop, for the counter value n: the exhaustion
\* check, then the start of the navigation loop.
AfterLoginLoop(n) ==
    IF n = maxLoginAttempts
    THEN Throw("MaxLogin") /\ UNCHANGED navigationAttempts
    ELSE navigationAttempts' = 0 /\ NavLoopTest(0)

\* Mutant: the loop test written with <=, one attempt too many.
LoginLoopTest_OffByOne(n) ==
    IF n <= maxLoginAttempts
    THEN Goto("login_goto", lastLog) /\ UNCHANGED navigationAttempts
    ELSE AfterLoginLoop(n)

\* while (loginAttempts < maxLoginAttempts) for the counter value n.
LoginLoopTest(n) ==
    IF n < maxLoginAttempts
    THEN Goto("login_goto", lastLog) /\ UNCHANGED navigationAttempts
    ELSE AfterLoginLoop(n)

\* What an awaited page.$(selector) leaves in ops: the element handle was
\* found, null was returned, or the call rejected.
QueryResult(what, r) ==
    CASE r = "present" -> <<"present" \o what, TRUE>>
      [] r = "absent"  -> <<"absent" \o what, TRUE>>
      [] r = "throw"   -> <<"query" \o what, FALSE>>

----------------------------------------------------------------------------
(* The site's side of click(Verify).  The click submits the credentials; when
   the site accepts them it navigates the page to the dashboard.  The driver
   registers page.waitForNavigation only after page.click has resolved, so
   the navigation either commits before the registration ("early": the
   waitForNavigation that follows does not see it) or after it ("late").
   accepted stays set for the rest of the run: the session is authenticated. *)

NoSubmission == [accepted |-> FALSE, nav |-> "none"]

\* The site accepted the credentials and navigated to the dashboard.
Accepted(when) == [accepted |-> TRUE, nav |-> when]

\* A new attempt: the navigation of the previous one is history.
NewAttempt(st) == [st EXCEPT !.nav = "none"]

----------------------------------------------------------------------------
(* The preferences file.  A document is the parsed JSON value, flattened:
   one field per key the patch writes, and one field standing for the other
   keys of the profile object, of the session object and of the top level.
   Values are written as JSON text; "absent" is a key that is not there. *)

EmptyDoc ==
    [ leak_detection |-> "absent", manager_enabled |-> "absent",
      profile_other |-> "absent",
      enable_service |-> "absent", enable_autosignin |-> "absent",
      restore |-> "absent", restore_urls |-> "absent",
      session_other |-> "absent",
      top_other |-> "absent" ]

\* A profile as the browser leaves it: password manager on, a session to
\* restore, and keys the script knows nothing about.
BrowserDoc ==
    [ leak_detection |-> "true", manager_enabled |-> "true",
      profile_other |-> "{\"name\":\"Person 1\"}",
      enable_service |-> "true", enable_autosignin |-> "true",
      restore |-> "1", restore_urls |-> "[\"https://example.org\"]",
      session_other |-> "{\"exit_type\":\"Crashed\"}",
      top_other |-> "{\"browser\":{}}" ]

\* A document with a profile object and no session object.
PartialDoc ==
    [ EmptyDoc EXCEPT !.manager_enabled = "true",
                      !.profile_other = "{\"name\":\"Person 1\"}",
                      !.top_other = "{\"browser\":{}}" ]

\* File contents: no file, bytes that are no JSON, or a JSON text in the
\* browser's compact layout or in the two-space layout of
\* JSON.stringify(preferences, null, 2).
MissingFile == [state |-> "missing", layout |-> "none", doc |-> EmptyDoc]
CorruptFile == [state |-> "corrupt", layout |-> "none", doc |-> EmptyDoc]
JsonFile(l, d) == [state |-> "json", layout |-> l, doc |-> d]

\* Mutant: the early return for a missing file is not taken.
PrefsFileExists_Always(f) == TRUE

\* fs.existsSync(preferencesPath)
PrefsFileExists(f) == f.state # "missing"

\* JSON.parse(fs.readFileSync(preferencesPath, 'utf8')) throws when the
\* read fails or the text is no JSON.
ReadFails(f, readOk) == ~readOk \/ f.state # "json"

\* let preferences = {}; try { preferences = JSON.parse(...) } catch { log }
\* The layout of the text is lost in parsing.
ReadPreferences(f, readOk) == IF ReadFails(f, readOk) THEN EmptyDoc ELSE f.doc

\* Mutant: password_manager_enabled is negated instead of set to false.
PatchPreferences_Negates(d) ==
    [ d EXCEPT !.leak_detection = "false",
               !.manager_enabled = IF @ = "true" THEN "false" ELSE "true",
               !.enable_service = "false", !.enable_autosignin = "false",
               !.restore = "0", !.restore_urls = "[]" ]

\* The assignments to preferences.profile, credentials_enable_service,
\* credentials_enable_autosignin and preferences.session.
PatchPreferences(d) ==
    [ d EXCEPT !.leak_detection = "false", !.manager_enabled = "false",
               !.enable_service = "false", !.enable_autosignin = "false",
               !.restore = "0", !.restore_urls = "[]" ]

\* JSON.stringify(preferences, null, 2)
Stringify(d) == JsonFile("pretty", d)

\* The contents the file can have when the process starts.
InitialFiles ==
    { MissingFile, CorruptFile,
      JsonFile("compact", EmptyDoc),
      JsonFile("compact", BrowserDoc),
      JsonFile("compact", PartialDoc),
      Stringify(PatchPreferences(BrowserDoc)) }

----------------------------------------------------------------------------
Init ==
    /\ variant \in {"js", "ts"}
    /\ pc = "prefs"
    /\ prefsFile \in InitialFiles
    /\ prefsBefore = prefsFile
    /\ dirExists \in (IF PrefsFileExists(prefsFile) THEN {TRUE} ELSE BOOLEAN)
    /\ prefsWrites = 0
    /\ prefsErrors = {}
    /\ url = BlankUrl
    /\ ops = <<>>
    /\ lastLog = "none"
    /\ loginAttempts = 0
    /\ navigationAttempts = 0
    /\ loginGotos = 0
    /\ navGotos = 0
    /\ loginDelays = 0
    /\ navDelays = 0
    /\ errorLogged = "none"
    /\ driverResult = "pending"
    /\ zoomed = FALSE
    /\ timers = 0
    /\ inflight = 0
    /\ lastReload = "none"
    /\ alive = TRUE
    /\ site = NoSubmission

\* await updatePreferences() of the bootstrap: the function has no await of
\* its own, all its file system calls are synchronous.  When it returns the
\* bootstrap calls loginToRFSActiv(), which calls puppeteer.launch.
\* mkdirSync is taken to succeed, and a writeFileSync that throws to leave
\* the file as it was.
UpdatePreferences ==
    /\ pc = "prefs"
    /\ dirExists' = TRUE
    /\ IF ~PrefsFileExists(prefsFile)
       THEN /\ prefsErrors' = {"missing"}
            /\ lastLog' = "PreferencesMissing"
            /\ UNCHANGED <<prefsFile, prefsWrites>>
       ELSE \E readOk \in BOOLEAN, writeOk \in BOOLEAN :
              LET preferences == PatchPreferences(ReadPreferences(prefsFile, readOk))
                  readError == IF ReadFails(prefsFile, readOk) THEN {"read"} ELSE {}
              IN  IF writeOk
                  THEN /\ prefsFile' = Stringify(preferences)
                       /\ prefsWrites' = prefsWrites + 1
                       /\ prefsErrors' = readError
                       /\ lastLog' = "UpdatedPreferences"
                  ELSE /\ prefsErrors' = readError \cup {"write"}
                       /\ lastLog' = "ErrorWritingPreferences"
                       /\ UNCHANGED <<prefsFile, prefsWrites>>
    /\ pc' = "launch"
    /\ UNCHANGED <<variant, url, ops, errorLogged, driverResult, counters,
                   refresh, prefsBefore, site>>

\* Mutant: the bootstrap does not wait for updatePreferences before it
\* calls loginToRFSActiv.
Launch_PrefsNotAwaited ==
    /\ pc \in {"prefs", "launch"}
    /\ \E ok \in BOOLEAN :
         IF ok
         THEN LoginLoopTest(loginAttempts)
         ELSE Throw("launch") /\ UNCHANGED navigationAttempts
    /\ UNCHANGED <<prefs, site, variant, url, ops, loginAttempts, loginGotos, navGotos,
                   loginDelays, navDelays, refresh>>

\* puppeteer.launch, newPage, F11, closing the blank tab; then the first
\* test of the login loop.
Launch ==
    /\ pc = "launch"
    /\ \E ok \in BOOLEAN :
         IF ok
         THEN LoginLoopTest(loginAttempts)
         ELSE Throw("launch") /\ UNCHANGED navigationAttempts
    /\ UNCHANGED <<prefs, site, variant, url, ops, loginAttempts, loginGotos, navGotos,
                   loginDelays, navDelays, refresh>>

\* await page.goto(pages.login.url)
LoginGoto ==
    /\ pc = "login_goto"
    /\ loginGotos' = loginGotos + 1
    /\ \E ok \in BOOLEAN :
         /\ ops' = <<<<"goto", ok>>>>
         /\ IF ok
            THEN /\ url' \in Urls
                 /\ Goto("login_query", lastLog)
            ELSE /\ url' = url
                 /\ LoginAttemptFailed
    /\ site' = NewAttempt(site)
    /\ UNCHANGED <<prefs, variant, loginAttempts, navigationAttempts, navGotos,
                   loginDelays, navDelays, refresh>>

\* Mutant: the attempt is counted before it is made, so the check after
\* the loop sees a success on the last attempt as exhaustion.
LoginBreak_CountsAttempt == AfterLoginLoop(loginAttempts + 1)

\* The break of the login loop.
LoginBreak == AfterLoginLoop(loginAttempts)

\* if (await page.$(pages.login.username)) ... else ...
LoginQuery ==
    /\ pc = "login_query"
    /\ \E r \in {"present", "absent", "throw"} :
         /\ ops' = Append(ops, QueryResult("User", r))
         /\ CASE r = "present" ->
                   Goto("wait_user", "LoginFormDetected") /\ UNCHANGED navigationAttempts
              [] r = "absent" ->
                   IF FormAbsentSucceeds(variant, url)
                   THEN LoginBreak
                   ELSE Goto("login_delay", "LoginFormNotDetected")
                        /\ UNCHANGED navigationAttempts
              [] r = "throw" ->
                   LoginAttemptFailed /\ UNCHANGED navigationAttempts
    /\ UNCHANGED <<prefs, site, variant, url, loginAttempts, loginGotos, navGotos,
                   loginDelays, navDelays, refresh>>

\* Mutant: the click is made without the null check, so a missing
\* remember-me element makes the attempt fail.
QueryRemember_ClicksNull ==
    /\ pc = "query_remember"
    /\ \E r \in {"present", "absent", "throw"} :
         /\ ops' = Append(ops, QueryResult("Remember", r))
         /\ CASE r = "present" -> Goto("click_remember", lastLog)
              [] r = "absent"  -> LoginAttemptFailed
              [] r = "throw"   -> LoginAttemptFailed
    /\ UNCHANGED <<prefs, site, variant, url, counters, refresh>>

\* One awaited page operation of the form flow: it resolves and the flow
\* goes on to the next await, or it rejects and the catch takes over.
FormStep(from, op, to, msg) ==
    /\ pc = from
    /\ \E ok \in BOOLEAN :
         /\ ops' = Append(ops, <<op, ok>>)
         /\ IF ok THEN Goto(to, msg) ELSE LoginAttemptFailed
    /\ UNCHANGED <<prefs, site, variant, url, counters, refresh>>

WaitUser ==
    FormStep("wait_user", "waitUser",
             IF variant = "js" THEN "focus_user" ELSE "type_user", lastLog)

FocusUser == FormStep("focus_user", "focusUser", "type_user", lastLog)

TypeUser ==
    FormStep("type_user", "typeUser", "query_remember", JsLog("UsernameEntered"))

\* const rememberMeCheckbox = await page.$(pages.login.rememberMe);
\* if (rememberMeCheckbox) await rememberMeCheckbox.click();
QueryRemember ==
    /\ pc = "query_remember"
    /\ \E r \in {"present", "absent", "throw"} :
         /\ ops' = Append(ops, QueryResult("Remember", r))
         /\ CASE r = "present" -> Goto("click_remember", lastLog)
              [] r = "absent"  -> Goto("wait_next", JsLog("RememberMeClicked"))
              [] r = "throw"   -> LoginAttemptFailed
    /\ UNCHANGED <<prefs, site, variant, url, counters, refresh>>

ClickRemember ==
    FormStep("click_remember", "clickRemember", "wait_next", JsLog("RememberMeClicked"))

WaitNext == FormStep("wait_next", "waitNext", "click_next", lastLog)

\* Mutant: the wait for the password field is missing after click(Next).
ClickNext_SkipsWait == FormStep("click_next", "clickNext", "type_pass", lastLog)

ClickNext == FormStep("click_next", "clickNext", "wait_pass", lastLog)

WaitPass == FormStep("wait_pass", "waitPass", "type_pass", JsLog("NextClicked"))

TypePass == FormStep("type_pass", "typePass", "wait_verify", lastLog)

WaitVerify == FormStep("wait_verify", "waitVerify", "click_verify", lastLog)

\* await page.click(pages.login.verifyButton): the click resolves when the
\* mouse events are dispatched; the navigation it starts may have committed
\* by the time the driver goes on to register waitForNavigation.
ClickVerify ==
    /\ pc = "click_verify"
    /\ \E ok \in BOOLEAN :
         /\ ops' = Append(ops, <<"clickVerify", ok>>)
         /\ IF ok
            THEN /\ Goto("wait_nav", JsLog("PasswordEntered"))
                 /\ \E early \in BOOLEAN :
                      IF early
                      THEN url' = DashboardUrl /\ site' = Accepted("early")
                      ELSE UNCHANGED <<url, site>>
            ELSE /\ LoginAttemptFailed
                 /\ UNCHANGED <<url, site>>
    /\ UNCHANGED <<prefs, variant, counters, refresh>>

\* await page.waitForNavigation(...), then the URL check.
WaitNav ==
    /\ pc = "wait_nav"
    /\ \E ok \in BOOLEAN :
         /\ ops' = Append(ops, <<"waitNav", ok>>)
         /\ IF ok
            THEN /\ url' \in Urls
                 /\ site' = IF site.nav = "none" /\ isDashboardPage(url')
                            THEN Accepted("late")
                            ELSE site
                 /\ IF isloggedInPage(url')
                    THEN LoginBreak
                    ELSE Goto("login_delay", "LoginFailedRetrying")
                         /\ UNCHANGED navigationAttempts
            ELSE /\ url' = url
                 /\ UNCHANGED site
                 /\ LoginAttemptFailed
                 /\ UNCHANGED navigationAttempts
    /\ UNCHANGED <<prefs, variant, loginAttempts, loginGotos, navGotos,
                   loginDelays, navDelays, refresh>>

\* await new Promise(resolve => setTimeout(resolve, retryDelay));
\* loginAttempts++; then the loop test.
LoginDelay ==
    /\ pc = "login_delay"
    /\ loginDelays' = loginDelays + 1
    /\ loginAttempts' = loginAttempts + 1
    /\ LoginLoopTest(loginAttempts + 1)
    /\ UNCHANGED <<prefs, site, variant, url, ops, loginGotos, navGotos, navDelays, refresh>>

\* await page.goto(pages.dashboard.url), then the URL check.
NavGoto ==
    /\ pc = "nav_goto"
    /\ navGotos' = navGotos + 1
    /\ \E ok \in BOOLEAN :
         /\ ops' = <<<<"navGoto", ok>>>>
         /\ IF ok
            THEN /\ url' \in Urls
                 /\ IF isDashboardPage(url')
                    THEN Goto("zoom", "DashboardLoaded")
                    ELSE Goto("nav_delay", JsLog("NavigationFailedRetrying"))
            ELSE /\ url' = url
                 /\ NavAttemptFailed
    /\ UNCHANGED <<prefs, site, variant, loginAttempts, navigationAttempts, loginGotos,
                   loginDelays, navDelays, refresh>>

\* the delay of the navigation loop; navigationAttempts++; loop test.
NavDelay ==
    /\ pc = "nav_delay"
    /\ navDelays' = navDelays + 1
    /\ navigationAttempts' = navigationAttempts + 1
    /\ NavLoopTest(navigationAttempts + 1)
    /\ UNCHANGED <<prefs, site, variant, url, ops, loginAttempts, loginGotos, navGotos,
                   loginDelays, refresh>>

\* Mutant: setInterval is called before the zoom is awaited.
Zoom_TimerFirst ==
    /\ pc = "zoom"
    /\ timers' = timers + 1
    /\ \E ok \in BOOLEAN :
         IF ok
         THEN /\ zoomed' = TRUE
              /\ pc' = "returned"
              /\ driverResult' = "resolved"
              /\ UNCHANGED <<lastLog, errorLogged>>
         ELSE /\ Throw("zoom")
              /\ UNCHANGED zoomed
    /\ UNCHANGED <<prefs, site, variant, url, ops, counters, inflight, lastReload, alive>>

\* await page.evaluate(zoom); setInterval(...); the function returns.
Zoom ==
    /\ pc = "zoom"
    /\ \E ok \in BOOLEAN :
         IF ok
         THEN /\ zoomed' = TRUE
              /\ timers' = timers + 1
              /\ pc' = "returned"
              /\ driverResult' = "resolved"
              /\ UNCHANGED <<lastLog, errorLogged>>
         ELSE /\ Throw("zoom")
              /\ UNCHANGED <<zoomed, timers>>
    /\ UNCHANGED <<prefs, site, variant, url, ops, counters, inflight, lastReload, alive>>

\* The interval elapses: the callback logs and calls page.reload().
\* Nothing in the callback looks at a reload still in flight.
RefreshTick ==
    /\ alive
    /\ timers > 0
    /\ inflight < MaxInFlight
    /\ inflight' = inflight + 1
    /\ lastLog' = "RefreshingPage"
    /\ UNCHANGED <<prefs, site, variant, url, ops, pc, errorLogged, driverResult, counters,
                   zoomed, timers, lastReload, alive>>

\* A reload resolves: the callback's promise is fulfilled.
ReloadResolve ==
    /\ alive
    /\ inflight > 0
    /\ inflight' = inflight - 1
    /\ lastReload' = "resolved"
    /\ url' \in Urls
    /\ UNCHANGED <<prefs, site, variant, ops, ctl, counters, zoomed, timers, alive>>

\* A reload rejects: the callback's promise is rejected and nobody handles
\* it.  What node does with an unhandled rejection depends on its version
\* and flags: it warns and goes on, or it ends the process.
ReloadReject ==
    /\ alive
    /\ inflight > 0
    /\ inflight' = inflight - 1
    /\ lastReload' = "rejected"
    /\ alive' \in BOOLEAN
    /\ UNCHANGED <<prefs, site, variant, url, ops, ctl, counters, zoomed, timers>>

Next ==
    \/ UpdatePreferences
    \/ Launch
    \/ LoginGoto
    \/ LoginQuery
    \/ WaitUser
    \/ FocusUser
    \/ TypeUser
    \/ QueryRemember
    \/ ClickRemember
    \/ WaitNext
    \/ ClickNext
    \/ WaitPass
    \/ TypePass
    \/ WaitVerify
    \/ ClickVerify
    \/ WaitNav
    \/ LoginDelay
    \/ NavGoto
    \/ NavDelay
    \/ Zoom
    \/ RefreshTick
    \/ ReloadResolve
    \/ ReloadReject

Spec == Init /\ [][Next]_vars

\* The scheduling the fair specification assumes: the driver's awaits
\* settle, the interval timer of a running process fires, and a reload in
\* flight settles.
Driver ==
    \/ UpdatePreferences
    \/ Launch \/ LoginGoto \/ LoginQuery \/ WaitUser \/ FocusUser \/ TypeUser
    \/ QueryRemember \/ ClickRemember \/ WaitNext \/ ClickNext \/ WaitPass
    \/ TypePass \/ WaitVerify \/ ClickVerify \/ WaitNav \/ LoginDelay
    \/ NavGoto \/ NavDelay \/ Zoom

FairSpec ==
    /\ Init /\ [][Next]_vars
    /\ WF_vars(Driver)
    /\ WF_vars(RefreshTick)
    /\ WF_vars(ReloadResolve \/ ReloadReject)

----------------------------------------------------------------------------
(* Vocabulary of the properties *)

LoginPcs == { "login_goto", "login_query", "wait_user", "focus_user", "type_user",
              "query_remember", "click_remember", "wait_next", "click_next",
              "wait_pass", "type_pass", "wait_verify", "click_verify", "wait_nav",
              "login_delay" }
NavPcs == { "nav_goto", "nav_delay" }

\* Every login attempt so far has failed and the budget is used up.
LoginAllFailed == loginAttempts = maxLoginAttempts
\* Every navigation attempt so far has failed and the budget is used up.
NavAllFailed == navigationAttempts = maxNavigationAttempts

\* The login loop was left by its break.
LoginSucceeded ==
    \/ pc \in NavPcs \cup {"zoom"}
    \/ navGotos > 0
    \/ zoomed
    \/ errorLogged \in {"MaxNav", "zoom"}

\* The navigation loop was left by its break.
NavSucceeded == pc = "zoom" \/ zoomed \/ errorLogged = "zoom"

LastOpFailed == Len(ops) > 0 /\ ~ops[Len(ops)][2]

----------------------------------------------------------------------------
\* C1: a phase whose attempts all fail navigates to its URL exactly N times
\* (N = 5), never more, and then the exhaustion error is raised: once the
\* counter of a phase has reached N, exactly N navigations of that phase
\* have been made, the driver has stopped and the error logged is that
\* phase's exhaustion error.
C1_ExactlyNAttempts ==
    /\ loginGotos <= maxLoginAttempts
    /\ navGotos <= maxNavigationAttempts
    /\ LoginAllFailed =>
         loginGotos = maxLoginAttempts /\ pc = "returned" /\ errorLogged = "MaxLogin"
    /\ NavAllFailed =>
         navGotos = maxNavigationAttempts /\ pc = "returned" /\ errorLogged = "MaxNav"

\* Both ways of failing occurred among the five failed login attempts of
\* this run: the last one by a raised error, and the run ended in the
\* exhaustion error.
C1_Witness ==
    /\ errorLogged = "MaxLogin"
    /\ loginGotos = maxLoginAttempts
    /\ ops = <<<<"goto", FALSE>>>>

----------------------------------------------------------------------------
\* C2: with the username field absent on the first navigation to the login
\* URL and the page URL that of an authenticated session (it matches the
\* dashboard or application base URL and is not the login page), the login
\* phase succeeds in that one attempt, with no form interaction and no
\* retry consumed.
C2_AlreadyAuthenticated ==
    ( /\ loginGotos = 1
      /\ ops = <<<<"goto", TRUE>>, <<"absentUser", TRUE>>>>
      /\ isloggedInPage(url)
      /\ ~Includes(url, LoginUrl) )
    => ( /\ pc = "nav_goto"
         /\ loginAttempts = 0
         /\ loginDelays = 0 )

\* What part_001 does in that case, which login.js does not.
C2_HoldsInTs == variant = "ts" => C2_AlreadyAuthenticated

----------------------------------------------------------------------------
\* The page operations the form flow is made of, in the order the claim
\* gives; page.$ queries and the focus call of login.js are auxiliary
\* operations between them.
FormOpNames == { "waitUser", "typeUser", "clickRemember", "waitNext", "clickNext",
                 "waitPass", "typePass", "waitVerify", "clickVerify", "waitNav" }

FormSeq(withRemember) ==
    <<"waitUser", "typeUser">>
    \o (IF withRemember THEN <<"clickRemember">> ELSE <<>>)
    \o <<"waitNext", "clickNext", "waitPass", "typePass", "waitVerify",
         "clickVerify", "waitNav">>

IsPrefix(s, t) == Len(s) <= Len(t) /\ SubSeq(t, 1, Len(s)) = s

\* The names of the form operations of the current attempt, in order.
FormOpsDone ==
    LET f == SelectSeq(ops, LAMBDA e : e[1] \in FormOpNames)
    IN  [i \in 1..Len(f) |-> f[i][1]]

\* The form operation that has completed when the driver is at an await.
DoneBefore(p) ==
    CASE p = "wait_user"      -> {}
      [] p = "focus_user"     -> {"waitUser"}
      [] p = "type_user"      -> {"waitUser"}
      [] p = "query_remember" -> {"typeUser"}
      [] p = "click_remember" -> {"typeUser"}
      [] p = "wait_next"      -> {"typeUser", "clickRemember"}
      [] p = "click_next"     -> {"waitNext"}
      [] p = "wait_pass"      -> {"clickNext"}
      [] p = "type_pass"      -> {"waitPass"}
      [] p = "wait_verify"    -> {"typePass"}
      [] p = "click_verify"   -> {"waitVerify"}
      [] p = "wait_nav"       -> {"clickVerify"}

FormPcs == LoginPcs \ {"login_goto", "login_query", "login_delay"}

\* C3: in an attempt with the username field present the form operations
\* completed so far are always an initial part of the prescribed order
\* (with or without the remember-me click); the driver waits at a step only
\* when the step before it is the last one completed; only the last
\* operation of an attempt can have failed, and after a failure the driver
\* is no longer in the form flow; an attempt that left the loop through the
\* form flow has run the whole sequence.
C3_FormOrder ==
    LET done == FormOpsDone
    IN  /\ \E w \in BOOLEAN : IsPrefix(done, FormSeq(w))
        /\ \A i \in 1..(Len(ops) - 1) : ops[i][2]
        /\ LastOpFailed => pc \notin FormPcs
        /\ pc \in FormPcs =>
             /\ ~LastOpFailed
             /\ IF DoneBefore(pc) = {}
                THEN done = <<>>
                ELSE done # <<>> /\ done[Len(done)] \in DoneBefore(pc)
        /\ (pc = "nav_goto" /\ done # <<>>) =>
             \E w \in BOOLEAN : done = FormSeq(w)
        /\ ("clickRemember" \in {done[i] : i \in 1..Len(done)}) =>
             <<"presentRemember", TRUE>> \in {ops[i] : i \in 1..Len(ops)}

\* The whole form flow, remember-me click included, has run and the login
\* loop was left by its break.
C3_Witness ==
    /\ pc = "nav_goto"
    /\ FormOpsDone = FormSeq(TRUE)
    /\ variant = "js"

\* A step of the form flow failed and ended the attempt.
C3_WitnessFailedStep ==
    /\ pc = "login_delay"
    /\ FormOpsDone = <<"waitUser", "typeUser", "waitNext">>
    /\ LastOpFailed

----------------------------------------------------------------------------
\* C4 as claimed: when a phase has exhausted its attempts the driver does
\* not complete normally, its caller receives the error.
C4_ErrorReachesCaller ==
    ((LoginAllFailed \/ NavAllFailed) /\ pc = "returned") => driverResult = "rejected"

\* C4 as amended: when a phase has exhausted its attempts the exhaustion
\* error is caught by the driver's own outer catch and written with
\* console.error, the driver's promise resolves (the caller sees no error),
\* and no further attempt is made in either phase.
C4_ErrorLoggedByDriver ==
    /\ LoginAllFailed =>
         /\ pc = "returned" /\ driverResult = "resolved"
         /\ errorLogged = "MaxLogin" /\ lastLog = "ErrorDuringLogin"
         /\ loginGotos = maxLoginAttempts /\ navGotos = 0
    /\ NavAllFailed =>
         /\ pc = "returned" /\ driverResult = "resolved"
         /\ errorLogged = "MaxNav" /\ lastLog = "ErrorDuringLogin"
         /\ navGotos = maxNavigationAttempts

\* The navigation phase has exhausted its attempts and the driver returned.
C4_Witness ==
    /\ NavAllFailed
    /\ driverResult = "resolved"
    /\ errorLogged = "MaxNav"

----------------------------------------------------------------------------
\* C5: an error raised inside an attempt never reaches the outer catch
\* (only launch, zoom and exhaustion errors do); it leaves the driver in
\* the retry delay of its loop with the attempt-failed line logged; and
\* each attempt made is counted as failed exactly once: the counter equals
\* the number of navigations made when an attempt is about to start and is
\* one behind it from the navigation to the end of the delay.
C5_CaughtAtAttemptBoundary ==
    /\ errorLogged \in {"none", "launch", "MaxLogin", "MaxNav", "zoom"}
    /\ (LastOpFailed /\ ops[1][1] = "goto") =>
         \/ pc = "login_delay" /\ lastLog = "LoginAttemptFailed"
         \/ pc = "login_goto"
         \/ pc = "returned" /\ errorLogged = "MaxLogin"
    /\ (LastOpFailed /\ ops[1][1] = "navGoto") =>
         \/ pc = "nav_delay" /\ lastLog = "NavigationAttemptFailed"
         \/ pc = "nav_goto"
         \/ pc = "returned" /\ errorLogged = "MaxNav"
    /\ pc = "login_goto" => loginGotos = loginAttempts
    /\ pc \in LoginPcs \ {"login_goto"} => loginGotos = loginAttempts + 1
    /\ pc = "nav_goto" => navGotos = navigationAttempts
    /\ pc = "nav_delay" => navGotos = navigationAttempts + 1

\* A navigation wait that timed out on the second attempt was caught: the
\* driver is in the retry delay and nothing reached the outer catch.
C5_Witness ==
    /\ pc = "login_delay"
    /\ loginAttempts = 1
    /\ ops[Len(ops)] = <<"waitNav", FALSE>>
    /\ lastLog = "LoginAttemptFailed"
    /\ errorLogged = "none"

----------------------------------------------------------------------------
\* C6: when every login attempt has failed, N - 1 retry delays have been
\* taken: none follows the last failed attempt.
C6_NoDelayAfterLastAttempt ==
    LoginAllFailed => loginDelays = maxLoginAttempts - 1

\* What the code does: one delay after every failed attempt, the last too.
C6_DelayAfterEveryFailure ==
    /\ LoginAllFailed => loginDelays = maxLoginAttempts
    /\ NavAllFailed => navDelays = maxNavigationAttempts

----------------------------------------------------------------------------
\* C7: a phase that succeeded on its k-th attempt has taken exactly k - 1
\* retry delays, one after each failed attempt and none after the
\* successful one; the counts never change afterwards.
C7_DelaysBeforeSuccess ==
    /\ LoginSucceeded =>
         /\ loginGotos >= 1
         /\ loginDelays = loginGotos - 1
         /\ loginAttempts = loginGotos - 1
    /\ NavSucceeded =>
         /\ navGotos >= 1
         /\ navDelays = navGotos - 1
         /\ navigationAttempts = navGotos - 1

\* Login succeeded on the third attempt after two failures, navigation on
\* the first attempt.
C7_Witness ==
    /\ NavSucceeded
    /\ loginGotos = 3 /\ loginDelays = 2
    /\ navGotos = 1 /\ navDelays = 0

----------------------------------------------------------------------------
\* C8: after login exhaustion no navigation to the dashboard is made and
\* the driver is in neither the navigation loop nor the zoom; after either
\* exhaustion the page is not zoomed, no timer is installed and no reload
\* is ever started.
C8_NothingAfterExhaustion ==
    /\ LoginAllFailed =>
         /\ navGotos = 0 /\ navigationAttempts = 0
         /\ pc \notin NavPcs \cup {"zoom"}
         /\ ~zoomed /\ timers = 0 /\ inflight = 0 /\ lastReload = "none"
    /\ NavAllFailed =>
         /\ pc # "zoom"
         /\ ~zoomed /\ timers = 0 /\ inflight = 0 /\ lastReload = "none"

\* The login phase ended in exhaustion; its last attempt failed on the
\* wait for the Next button.
C8_Witness ==
    /\ LoginAllFailed
    /\ errorLogged = "MaxLogin"
    /\ ops[Len(ops)] = <<"waitNext", FALSE>>
    /\ navGotos = 0

----------------------------------------------------------------------------
\* C9: at no time are two page reloads in flight.
C9_NoOverlappingReloads == inflight <= 1

----------------------------------------------------------------------------
\* C10: once the refresh timer is installed, a reload is started again and
\* again, forever, whatever happened to the reloads before.
C10_RefreshForever == <>(timers > 0) => []<><<RefreshTick>>_vars

\* The same, for a process that is still running.
C10_RefreshWhileAlive ==
    <>(timers > 0) => ([]<><<RefreshTick>>_vars \/ <>(~alive))

----------------------------------------------------------------------------
\* C11: the attempt counter of each phase is always between 0 and its
\* maximum, and a counter that has reached the maximum is followed by the
\* terminal exhaustion failure only: the driver has returned with that
\* phase's exhaustion error logged and is at no await of either loop.
C11_CounterBounded ==
    /\ loginAttempts \in 0..maxLoginAttempts
    /\ navigationAttempts \in 0..maxNavigationAttempts
    /\ loginAttempts = maxLoginAttempts =>
         pc \notin LoginPcs /\ pc = "returned" /\ errorLogged = "MaxLogin"
    /\ navigationAttempts = maxNavigationAttempts =>
         pc \notin NavPcs /\ pc = "returned" /\ errorLogged = "MaxNav"

\* The navigation counter has reached its maximum after a login that took
\* three attempts.
C11_Witness ==
    /\ navigationAttempts = maxNavigationAttempts
    /\ loginAttempts = 2
    /\ pc = "returned"

----------------------------------------------------------------------------
OpsSet == { ops[i] : i \in 1..Len(ops) }

\* C12: a missing remember-me element never makes an attempt fail.  Right
\* after the query found no element the driver is at the wait for the Next
\* button, exactly where a successful click leaves it, with the same log
\* line; and an attempt without the element that did fail failed at a later
\* step or on the URL check.
C12_RememberMeOptional ==
    /\ (Len(ops) > 0 /\ ops[Len(ops)] \in { <<"absentRemember", TRUE>>,
                                           <<"clickRemember", TRUE>> }) =>
         /\ pc = "wait_next"
         /\ lastLog = JsLog("RememberMeClicked")
         /\ errorLogged = "none"
    /\ (<<"absentRemember", TRUE>> \in OpsSet /\ pc = "login_delay") =>
         \/ LastOpFailed /\ lastLog = "LoginAttemptFailed"
         \/ ops[Len(ops)] = <<"waitNav", TRUE>> /\ lastLog = "LoginFailedRetrying"

\* A login without the remember-me element succeeded on the first attempt.
C12_Witness ==
    /\ pc = "nav_goto"
    /\ <<"absentRemember", TRUE>> \in OpsSet
    /\ FormOpsDone = FormSeq(FALSE)
    /\ loginAttempts = 0

----------------------------------------------------------------------------
\* C13: a navigation attempt succeeds exactly when page.goto resolved and
\* the URL it landed on contains the dashboard URL; every other attempt
\* goes to the retry delay; and the phase ends with its first success, the
\* successful attempt being the last navigation made.
C13_NavAttemptOutcome ==
    /\ (pc = "zoom" /\ Len(ops) > 0 /\ ops[1][1] = "navGoto") =>
         ops[1][2] /\ Includes(url, DashboardUrl)
    /\ pc = "nav_delay" =>
         /\ ops[1][1] = "navGoto"
         /\ ~(ops[1][2] /\ Includes(url, DashboardUrl))
    /\ NavSucceeded => navGotos = navigationAttempts + 1

\* An attempt redirected to the login page was retried, and the retry
\* reached the dashboard.
C13_Witness ==
    /\ pc = "zoom"
    /\ navigationAttempts = 1
    /\ lastLog = "DashboardLoaded"
    /\ url = DashboardUrl

\* A navigation that resolved on the login page is waiting for its retry.
C13_WitnessRedirect ==
    /\ pc = "nav_delay"
    /\ ops = <<<<"navGoto", TRUE>>>>
    /\ url = LoginUrl

----------------------------------------------------------------------------
\* C14: in both places where a login attempt can end without an error, the
\* form-absent branch and the end of the form flow, the attempt is a
\* success exactly when the page URL contains the dashboard URL or the
\* application base URL.
C14_SamePredicateBothBranches ==
    ( /\ pc \in {"login_delay", "nav_goto"}
      /\ Len(ops) > 0
      /\ ops[Len(ops)] \in { <<"absentUser", TRUE>>, <<"waitNav", TRUE>> } )
    => ( pc = "nav_goto" <=>
           (Includes(url, DashboardUrl) \/ Includes(url, WebappUrl)) )

\* The same, at the end of the form flow only, where both files apply it.
C14_AfterFormFlow ==
    ( /\ pc \in {"login_delay", "nav_goto"}
      /\ Len(ops) > 0
      /\ ops[Len(ops)] = <<"waitNav", TRUE>> )
    => ( pc = "nav_goto" <=>
           (Includes(url, DashboardUrl) \/ Includes(url, WebappUrl)) )

----------------------------------------------------------------------------
PrefsDone == pc # "prefs"

\* C15: when the preferences file could not be read, parsed or written,
\* updatePreferences has logged the error, the file is as it was before
\* the call, and the bootstrap has gone on to the browser launch.
C15_FileUntouchedOnError ==
    (PrefsDone /\ prefsErrors \cap {"read", "write"} # {}) =>
        prefsFile = prefsBefore

\* What holds instead: after a failed read or parse the function goes on
\* with an empty document, so a write that succeeds replaces the file by
\* the six settings alone; only a failed write leaves the file as it was.
C15_ReplacedAfterReadError ==
    /\ (PrefsDone /\ "write" \in prefsErrors) => prefsFile = prefsBefore
    /\ (PrefsDone /\ prefsErrors = {"read"}) =>
         prefsFile = Stringify(PatchPreferences(EmptyDoc))

\* Errors of updatePreferences never keep the driver from starting.
C15_LoginNotBlocked ==
    /\ pc = "prefs" => ENABLED UpdatePreferences
    /\ (PrefsDone /\ loginGotos = 0 /\ pc # "returned") =>
         pc \in {"launch", "login_goto"}

----------------------------------------------------------------------------
\* The six settings as the patch leaves them.
SettingsPatched(d) ==
    /\ d.leak_detection = "false" /\ d.manager_enabled = "false"
    /\ d.enable_service = "false" /\ d.enable_autosignin = "false"
    /\ d.restore = "0" /\ d.restore_urls = "[]"

\* The keys the patch does not name have the same value in both documents.
OtherKeysEqual(d, e) ==
    /\ d.profile_other = e.profile_other
    /\ d.session_other = e.session_other
    /\ d.top_other = e.top_other

\* C16: for a file that existed, once updatePreferences has written it the
\* six settings hold their fixed values and every other key, at top level
\* and inside profile and session, has the value it had before the call.
C16_PatchedNotReplaced ==
    (PrefsDone /\ PrefsFileExists(prefsBefore) /\ prefsWrites > 0) =>
        /\ prefsFile.state = "json"
        /\ SettingsPatched(prefsFile.doc)
        /\ OtherKeysEqual(prefsFile.doc, prefsBefore.doc)

\* The same for a file that was read and parsed without error.
C16_PatchedWhenParsed ==
    (PrefsDone /\ PrefsFileExists(prefsBefore) /\ prefsWrites > 0
       /\ "read" \notin prefsErrors) =>
        /\ prefsFile.state = "json"
        /\ SettingsPatched(prefsFile.doc)
        /\ OtherKeysEqual(prefsFile.doc, prefsBefore.doc)

----------------------------------------------------------------------------
----------------------------------------------------------------------------
\* The stage the driver is in: 0 preferences and launch, 1 login loop,
\* 2 navigation loop, 3 zoom, 4 returned.
Stage(p) ==
    CASE p \in {"prefs", "launch"} -> 0
      [] p \in LoginPcs            -> 1
      [] p \in NavPcs              -> 2
      [] p = "zoom"                -> 3
      [] p = "returned"            -> 4

\* What each stage has behind it and nothing of what lies ahead.
C18_StageInv ==
    /\ timers \in {0, 1}
    /\ timers = 1 => zoomed /\ pc = "returned"
    /\ zoomed => navGotos >= 1 /\ navigationAttempts = navGotos - 1
    /\ (Stage(pc) \in {2, 3} \/ navGotos >= 1) =>
         loginGotos >= 1 /\ loginAttempts = loginGotos - 1
    /\ Stage(pc) <= 1 => navGotos = 0 /\ ~zoomed /\ timers = 0
    /\ Stage(pc) = 1 => PrefsDone
    /\ Stage(pc) = 2 => ~zoomed /\ timers = 0
    /\ Stage(pc) = 3 => ~zoomed /\ timers = 0 /\ Includes(url, DashboardUrl)
    /\ inflight > 0 => timers = 1

\* No step goes back to an earlier stage, skips the login loop or the
\* navigation loop on the way to the zoom, or installs a timer anywhere
\* but at the end of the zoom.
C18_StageStep ==
    /\ Stage(pc') >= Stage(pc)
    /\ Stage(pc') \in {2, 3} => Stage(pc) \in {Stage(pc') - 1, Stage(pc')}
    /\ Stage(pc) = 2 /\ Stage(pc') = 2 /\ navGotos' = navGotos => pc = "nav_delay"
    /\ timers' # timers => pc = "zoom" /\ zoomed' /\ timers' = 1
    /\ loginGotos' # loginGotos => pc = "login_goto"
    /\ navGotos' # navGotos => pc = "nav_goto"

\* C18: the stages run strictly in sequence.  The navigation loop is only
\* entered from a successful login attempt, the zoom only from a successful
\* navigation attempt, the one timer is installed only when the zoom has
\* completed, and no step ever leads back into the login loop or any
\* earlier stage.
C18_Sequential == []C18_StageInv /\ [][C18_StageStep]_vars

\* The timer is installed, after two login attempts and two navigation
\* attempts.
C18_Witness ==
    /\ timers = 1
    /\ zoomed
    /\ loginGotos = 2
    /\ navGotos = 2
    /\ inflight = 0

----------------------------------------------------------------------------
\* C19: a phase ends in its exhaustion error exactly when none of its
\* attempts succeeded.  The exhaustion error is logged exactly when the
\* counter is at its maximum; the counter counts the failed attempts only,
\* so a phase left by its break has a counter below the maximum, one less
\* than the attempts made, and no exhaustion error, also when the success
\* came on the last allowed attempt.
C19_ExhaustionIffNoSuccess ==
    /\ errorLogged = "MaxLogin" <=> loginAttempts = maxLoginAttempts
    /\ errorLogged = "MaxNav" <=> navigationAttempts = maxNavigationAttempts
    /\ errorLogged = "MaxLogin" => ~LoginSucceeded /\ loginAttempts = loginGotos
    /\ errorLogged = "MaxNav" => ~NavSucceeded /\ navigationAttempts = navGotos
    /\ LoginSucceeded =>
         /\ loginAttempts = loginGotos - 1
         /\ loginGotos <= maxLoginAttempts
         /\ errorLogged # "MaxLogin"
    /\ NavSucceeded =>
         /\ navigationAttempts = navGotos - 1
         /\ navGotos <= maxNavigationAttempts
         /\ errorLogged # "MaxNav"

\* Both phases succeeded on their last allowed attempt.
C19_Witness ==
    /\ zoomed
    /\ loginGotos = maxLoginAttempts /\ loginAttempts = maxLoginAttempts - 1
    /\ navGotos = maxNavigationAttempts
    /\ navigationAttempts = maxNavigationAttempts - 1
    /\ errorLogged = "none"

----------------------------------------------------------------------------
\* The navigation counter counts the failed navigation attempts and
\* nothing else, whatever the login loop used.
C20_NavCounterInv ==
    /\ Stage(pc) <= 1 => navigationAttempts = 0
    /\ pc = "nav_goto" => navigationAttempts = navGotos
    /\ pc = "nav_delay" => navigationAttempts = navGotos - 1
    /\ navigationAttempts = navDelays
    /\ navigationAttempts = maxNavigationAttempts => navGotos = maxNavigationAttempts

\* No step outside the login loop changes the login counter; no step
\* outside the navigation loop changes the navigation counter; the
\* navigation loop is entered with its counter at 0.
C20_CounterStep ==
    /\ Stage(pc) # 1 => loginAttempts' = loginAttempts
    /\ Stage(pc) # 2 => navigationAttempts' = navigationAttempts
    /\ (Stage(pc) = 1 /\ Stage(pc') = 2) => navigationAttempts' = 0
    /\ (timers > 0 \/ Stage(pc) >= 2) =>
         loginAttempts' = loginAttempts /\ loginGotos' = loginGotos

\* C20: the two counters are independent.  The navigation loop starts with
\* its counter at 0 whatever the login loop used and so has all of its
\* attempts, and no step of the navigation loop or of the refresh timer
\* changes the login counter.
C20_IndependentCounters == []C20_NavCounterInv /\ [][C20_CounterStep]_vars

\* After a login that used four failed attempts the navigation loop made
\* all five of its attempts.
C20_Witness ==
    /\ loginAttempts = maxLoginAttempts - 1
    /\ navGotos = maxNavigationAttempts
    /\ navigationAttempts = maxNavigationAttempts
    /\ errorLogged = "MaxNav"

----------------------------------------------------------------------------
\* C21: the login loop is left by its break only when the session is
\* authenticated.  At the break the browser is never on the login page URL:
\* a form flow that ends on the login page, or a form-absent check made on
\* the login page, is a failed attempt.  (The driver is at the first
\* navigation attempt exactly when the break has just been taken, and the
\* URL is still the one the login test saw.)
C21_NoSuccessOnLoginPage ==
    (pc = "nav_goto" /\ navGotos = 0) => url # LoginUrl

\* What the URL test does guarantee at the break: the URL contains the base
\* URL of the web application, which the login page URL does as well.
C21_SuccessOnWebappUrl ==
    (pc = "nav_goto" /\ navGotos = 0) => Includes(url, WebappUrl)

----------------------------------------------------------------------------
\* The last page operation of the current attempt.
LastOp == IF ops = <<>> THEN <<"none", TRUE>> ELSE ops[Len(ops)]

\* An attempt in which the site accepted the credentials and navigated to
\* the dashboard is not recorded as failed, whether the navigation committed
\* before or after waitForNavigation was registered.
C22_AcceptedIsSuccess ==
    (site.nav # "none" /\ isDashboardPage(url)) => pc # "login_delay"

\* An attempt after the credentials were accepted, which finds no username
\* field on a page of the web application, is not recorded as failed.
C22_LaterAttemptRecovers ==
    (/\ site.accepted
     /\ site.nav = "none"
     /\ LastOp = <<"absentUser", TRUE>>
     /\ isloggedInPage(url)) => pc # "login_delay"

\* C22: an attempt in which the site accepts the credentials and navigates
\* to the dashboard after click(Verify) is recorded as successful whatever
\* the interleaving of that navigation with the registration of
\* waitForNavigation; and a later attempt that finds the session
\* authenticated and no username field is recorded as successful too.
C22_RaceFreeLogin == C22_AcceptedIsSuccess /\ C22_LaterAttemptRecovers

\* What holds: a navigation to the dashboard that commits while
\* waitForNavigation is registered ends the login loop.
C22_LateNavigationSucceeds ==
    (site.nav = "late" /\ Stage(pc) = 1) => FALSE

\* part_001 recovers in the later attempt.
C22_RecoversInTs == variant = "ts" => C22_LaterAttemptRecovers

----------------------------------------------------------------------------
\* The setup has ended: the driver has returned, either with the refresh
\* timer installed or with the error that ended it logged.
SetupEnded ==
    /\ pc = "returned"
    /\ \/ timers = 1 /\ zoomed /\ errorLogged = "none"
       \/ timers = 0 /\ errorLogged # "none" /\ lastLog = "ErrorDuringLogin"

\* C23: setup always terminates.  When every page operation completes or
\* fails and every retry delay elapses, the run reaches the state where the
\* refresh timer is installed or a terminal failure that was logged; no
\* phase is retried forever.
C23_SetupTerminates == <>SetupEnded

\* The setup ended with the timer installed after both loops used all but
\* one of their attempts.
C23_Witness ==
    /\ SetupEnded
    /\ timers = 1
    /\ loginAttempts = maxLoginAttempts - 1
    /\ navigationAttempts = maxNavigationAttempts - 1

\* The setup ended in exhaustion of the navigation loop.
C23_WitnessExhausted ==
    /\ SetupEnded
    /\ errorLogged = "MaxNav"
    /\ navGotos = maxNavigationAttempts

----------------------------------------------------------------------------
\* updatePreferences has run to its end: it wrote the file, or logged why
\* it did not.
PrefsCompleted == prefsWrites > 0 \/ prefsErrors # {}

\* Whenever puppeteer.launch is about to be called or has been called, the
\* patch is complete.
C24_LaunchAfterPatch == pc # "prefs" => PrefsCompleted

\* Only the first step of the bootstrap touches the profile directory or
\* the preferences file, and the launch step leaves them alone.
C24_PatchStep ==
    /\ prefs' # prefs => pc = "prefs" /\ pc' = "launch"
    /\ (pc = "launch" /\ pc' # "launch") => PrefsCompleted /\ prefs' = prefs

\* C24: the preferences patch is completed, its write finished or skipped,
\* before the browser is launched on the profile directory; the launch
\* never precedes or overlaps the patch.
C24_PatchBeforeLaunch == []C24_LaunchAfterPatch /\ [][C24_PatchStep]_vars

\* The browser was launched and is on its first login attempt, on a profile
\* whose preferences file was patched.
C24_Witness ==
    /\ pc = "login_query"
    /\ loginGotos = 1
    /\ prefsWrites = 1
    /\ prefsErrors = {}
    /\ prefsFile # prefsBefore
    /\ SettingsPatched(prefsFile.doc)

----------------------------------------------------------------------------
\* updatePreferences applied to the file f, when reading and writing work.
UpdatedFile(f) == Stringify(PatchPreferences(ReadPreferences(f, TRUE)))

\* C25: updatePreferences is idempotent on an existing, parseable
\* preferences file.  After it has read, patched and written the file, a
\* second application reads the file it wrote and writes the same file:
\* the same document in the same layout.
C25_Idempotent ==
    (PrefsDone /\ prefsBefore.state = "json" /\ prefsErrors = {}) =>
        /\ prefsFile = UpdatedFile(prefsBefore)
        /\ ~ReadFails(prefsFile, TRUE)
        /\ UpdatedFile(prefsFile) = prefsFile

\* A browser-written file was patched: the first application changed both
\* the document and the layout, the second would change nothing.
C25_Witness ==
    /\ PrefsDone
    /\ prefsBefore = JsonFile("compact", BrowserDoc)
    /\ prefsErrors = {}
    /\ prefsWrites = 1
    /\ prefsFile.doc # prefsBefore.doc
    /\ prefsFile.layout # prefsBefore.layout

====
